---- MODULE Spec2Model ----
(***************************************************************************)
(* Model of scripts/fetch_data.py: the date-bucketed crawl of main(), the  *)
(* rate-limited client GitHubAPI, the enrichment of process_repository and *)
(* the checkpoint / catalog files.                                         *)
(*                                                                         *)
(* One action is one statement block of the source that ends in an         *)
(* outbound call, a file operation or a loop decision.  The environment    *)
(* (API responses, free disk space, file-system failures, the files found  *)
(* on disk before the first run) is chosen nondeterministically from       *)
(* bounded sets.                                                           *)
(***************************************************************************)
EXTENDS Integers, Sequences, FiniteSets, TLC

VARIABLES
  progressFile,   \* content of PROGRESS_FILE ('progress.json') on disk
  files,          \* content of the catalog files on disk, by file name
  run,            \* number of the current process run (1-based)
  output,         \* args.output of the current run
  pc,             \* position of main() in the current run
  exc,            \* exception that unwound the run ("none" when there is none)
  request_count,  \* GitHubAPI.request_count
  issued,         \* history: requests.get calls performed in this run
  projects,       \* main's `projects` dict, in insertion order: <<[key, val]>>
  loaded,         \* history: what load_progress found and returned in this run
  last_successful_created_date_str,
  current_date,   \* main's current_date, as a day ordinal (0 = 2008-01-01)
  completed,      \* history: days whose pagination loop ran to its end
  page,           \* main's page
  repos,          \* main's repos (ids of the listed page)
  idx,            \* position of `for repo in repos` (1-based)
  loc,            \* locals of process_repository / of the client call in progress
  feed,           \* environment: the event feed served to get_new_stars_count
  resp,           \* history: the call of _make_request made by the last step
  saves,          \* history: the file writes attempted by the finally block
  done_before     \* history: days whose pagination loop ran to its end in an earlier run

vars == <<progressFile, files, run, output, pc, exc, request_count, issued,
          projects, loaded, last_successful_created_date_str, current_date,
          completed, page, repos, idx, loc, feed, resp, saves, done_before>>

----------------------------------------------------------------------------
(* Bounds of the model *)

\* Ceiling of GitHubAPI.request_count (MAX_REQUESTS = 2000 in the source,
\* line 38), scaled so that a run can exhaust it.
MAX_REQUESTS == 7
\* per_page of main (100 in the source, line 396), scaled.
per_page == 2
\* Ordinal of end_date, datetime.now(timezone.utc).date(): 2 is 2008-01-03.
EndDay == 2
\* Number of process runs followed.
MaxRuns == 2
\* Repository ids the search API can return.
MaxRepoId == 2
\* Events on one page of the event feed (per_page = 100 in the source).
MaxEvents == 2
\* Pages of an event feed served by the API.
FeedPages == 3

----------------------------------------------------------------------------
(* Calendar: datetime.date as a day ordinal, strftime / strptime with the  *)
(* format '%Y-%m-%d'.                                                      *)

OriginYear == 2008

IsLeap(y) == (y % 4 = 0 /\ y % 100 # 0) \/ y % 400 = 0

DaysInMonth(y, m) ==
  IF m = 2 THEN (IF IsLeap(y) THEN 29 ELSE 28)
  ELSE IF m \in {4, 6, 9, 11} THEN 30 ELSE 31

\* The civil date <<y, m, d>> that lies n days after <<y, m, d>>.
RECURSIVE AddDays(_, _, _, _)
AddDays(y, m, d, n) ==
  IF n = 0 THEN <<y, m, d>>
  ELSE IF d < DaysInMonth(y, m) THEN AddDays(y, m, d + 1, n - 1)
  ELSE IF m < 12 THEN AddDays(y, m + 1, 1, n - 1)
  ELSE AddDays(y + 1, 1, 1, n - 1)

Pad2(n) == IF n < 10 THEN "0" \o ToString(n) ELSE ToString(n)

\* date.strftime('%Y-%m-%d') of the day with ordinal n.
strftime(n) ==
  LET c == AddDays(OriginYear, 1, 1, n)
  IN  ToString(c[1]) \o "-" \o Pad2(c[2]) \o "-" \o Pad2(c[3])

\* Ordinals whose date strings the model can meet.
Ordinals == 0 .. (EndDay + 2)

\* datetime.strptime(s, '%Y-%m-%d') succeeds.
Parses(s) == \E n \in Ordinals : strftime(n) = s

\* datetime.strptime(s, '%Y-%m-%d').date(), as an ordinal.
strptime(s) == CHOOSE n \in Ordinals : strftime(n) = s

start_date == "2008-01-01"

----------------------------------------------------------------------------
(* Python dict in insertion order: a sequence of [key, val] records.       *)

DictKeys(d) == {d[i].key : i \in 1 .. Len(d)}

DictHas(d, k) == k \in DictKeys(d)

\* d[k] = v: a known key keeps its position and takes the new value.
DictSet(d, k, v) ==
  IF DictHas(d, k)
  THEN [i \in 1 .. Len(d) |-> IF d[i].key = k THEN [key |-> k, val |-> v] ELSE d[i]]
  ELSE Append(d, [key |-> k, val |-> v])

\* list(d.values())
DictValues(d) == [i \in 1 .. Len(d) |-> d[i].val]

\* str(n) of a repository id
str(n) == ToString(n)

\* {str(p['id']): p for p in plist}
RECURSIVE DictFromList(_, _)
DictFromList(d, plist) ==
  IF plist = <<>> THEN d
  ELSE DictFromList(DictSet(d, str(Head(plist).id), Head(plist)), Tail(plist))

----------------------------------------------------------------------------
(* Files *)

PROGRESS_FILE == "progress.json"
DefaultCatalog == "projects.json"
OtherCatalog == "other.json"
Outputs == {DefaultCatalog, OtherCatalog}

NoCursor == ""
AbsentProgress == [kind |-> "absent", has |-> FALSE, cursor |-> NoCursor]
\* not decodable as JSON
UndecodableProgress == [kind |-> "undecodable", has |-> FALSE, cursor |-> NoCursor]
\* JSON, but not an object (a list, a string, a number, null)
WrongShapeProgress == [kind |-> "wrongshape", has |-> FALSE, cursor |-> NoCursor]
\* a JSON object without the key 'last_processed_created_date'
NoFieldProgress == [kind |-> "dict", has |-> FALSE, cursor |-> NoCursor]
\* what save_progress writes
ProgressOf(c) == [kind |-> "dict", has |-> TRUE, cursor |-> c]

AbsentFile == [kind |-> "absent", projects |-> <<>>]
\* what save_projects_to_json writes: {'last_updated': ..., 'projects': plist}
CatalogOf(plist) == [kind |-> "catalog", projects |-> plist]

Entries(f) == {f.projects[i] : i \in 1 .. Len(f.projects)}

\* A catalog entry as an earlier run of the program wrote it for repository i.
SeedEntry(i) ==
  [id |-> i, contributors |-> 0, new_open_issues |-> 0, new_stars_30d |-> 0,
   code_line_count |-> 0]

\* A cursor string that strptime rejects.
BadCursor == "not-a-date"

InitProgressFiles ==
  {AbsentProgress, UndecodableProgress, WrongShapeProgress, NoFieldProgress,
   ProgressOf(strftime(EndDay + 1)), ProgressOf(BadCursor)}

InitDefaultCatalogs == {AbsentFile, CatalogOf(<<SeedEntry(1)>>)}

InitOtherCatalogs == {AbsentFile}

----------------------------------------------------------------------------
(* State of a run *)

NoDetails == [id |-> 0]

Idle ==
  [det |-> NoDetails, contributors |-> 0, new_open_issues |-> 0,
   count |-> 0, page |-> 0, readme |-> 0, readme_content |-> ""]

NoFeed == [pages |-> <<>>, more |-> FALSE, fail |-> -1]

\* The last step called _make_request at `site` with this outcome: "ok",
\* "failed" (the request was issued and None was returned) or "refused".
Resp(site, outcome) == [site |-> site, outcome |-> outcome]
NoResp == Resp("none", "none")

\* load_progress has not returned in this run.
NotLoaded == [from |-> "none", cursor |-> NoCursor]

\* GitHubAPI.__init__ and the first statements of main for a run that writes to o.
FreshRun(o) ==
  /\ output = o
  /\ pc = "load"
  /\ exc = "none"
  /\ request_count = 0
  /\ issued = 0
  /\ projects = <<>>
  /\ loaded = NotLoaded
  /\ last_successful_created_date_str = NoCursor
  /\ current_date = 0
  /\ completed = {}
  /\ page = 0
  /\ repos = <<>>
  /\ idx = 0
  /\ loc = Idle
  /\ feed = NoFeed
  /\ resp = NoResp
  /\ saves = <<>>

\* The days that the runs before the first one completed: a checkpoint found
\* on disk was written after every day before its cursor had been completed;
\* without a usable checkpoint nothing is known to be completed.
DoneBefore(pf) ==
  IF pf.kind = "dict" /\ pf.has /\ Parses(pf.cursor)
  THEN 0 .. (strptime(pf.cursor) - 1)
  ELSE {}

Init ==
  /\ progressFile \in InitProgressFiles
  /\ \E a \in InitDefaultCatalogs, b \in InitOtherCatalogs :
       files = [n \in Outputs |-> IF n = DefaultCatalog THEN a ELSE b]
  /\ run = 1
  /\ done_before = DoneBefore(progressFile)
  /\ \E o \in Outputs : FreshRun(o)

fsVars == <<progressFile, files>>
runVars == <<run, output, done_before>>
crawlVars == <<current_date, completed, page, repos, idx>>
cursorVars == <<loaded, last_successful_created_date_str>>
clientVars == <<request_count, issued>>

----------------------------------------------------------------------------
(* GitHubAPI._make_request *)

\* Variant: the ceiling is compared with > instead of >=.
LimitReachedOffByOne(n) == n > MAX_REQUESTS

\* `if self.request_count >= MAX_REQUESTS`
LimitReached(n) == n >= MAX_REQUESTS

\* `self.request_count += 1`
Counted(n) == n + 1

\* What requests.get / raise_for_status can do; both failures are a
\* requests.exceptions.RequestException.
HttpOutcomes == {"ok", "http_error", "transport_error"}

\* The value _make_request returns is a response (truthy), not None.
IsResponse(o) == o = "ok"

\* The outcome of an issued request, as the history records it.
Outcome(o) == IF IsResponse(o) THEN "ok" ELSE "failed"

\* An exception raised inside main's try block: logged by `except Exception`,
\* control passes to the finally block.
Raise(e) ==
  /\ exc' = e
  /\ pc' = "finally"
  /\ loc' = Idle
  /\ feed' = NoFeed

\* _make_request refuses the call made at `site`: no request is issued.
RequestRefused(site) ==
  /\ LimitReached(request_count)
  /\ Raise("RequestLimit")
  /\ resp' = Resp(site, "refused")
  /\ UNCHANGED clientVars

\* _make_request issues the call.
RequestIssued ==
  /\ ~LimitReached(request_count)
  /\ request_count' = Counted(request_count)
  /\ issued' = issued + 1

----------------------------------------------------------------------------
(* load_progress and the head of main *)

\* load_progress(), given the checkpoint file and 'projects.json'.
load_progress(pf, cat) ==
  IF pf.kind = "absent"
  THEN [raises |-> FALSE, cursor |-> start_date, projects |-> <<>>]
  ELSE IF pf.kind = "wrongshape"
  THEN [raises |-> TRUE, cursor |-> NoCursor, projects |-> <<>>]
  ELSE [raises |-> FALSE,
        cursor |-> IF pf.kind = "dict" /\ pf.has THEN pf.cursor ELSE start_date,
        projects |-> IF cat.kind = "catalog"
                     THEN DictFromList(<<>>, cat.projects) ELSE <<>>]

LoadProgress ==
  /\ pc = "load"
  /\ LET progress == load_progress(progressFile, files[DefaultCatalog])
     IN  IF progress.raises
         THEN /\ exc' = "TypeError(load_progress)"
              /\ pc' = "exit"
              /\ loaded' = [from |-> progressFile.kind, cursor |-> NoCursor]
              /\ UNCHANGED <<projects, last_successful_created_date_str>>
         ELSE /\ projects' = progress.projects
              /\ loaded' = [from |-> progressFile.kind, cursor |-> progress.cursor]
              /\ last_successful_created_date_str' = progress.cursor
              /\ pc' = "parse"
              /\ exc' = "none"
  /\ UNCHANGED <<fsVars, runVars, clientVars, crawlVars, loc, feed, resp, saves>>

\* Variant: the crawl resumes at the day after the cursor.
FirstDayAfterCursor(c) == strptime(c) + 1

\* The day the crawl starts at: start_date of main, the day of the cursor.
FirstDay(c) == strptime(c)

\* start_date = datetime.strptime(...).date(); current_date = start_date
ParseCursor ==
  /\ pc = "parse"
  /\ IF Parses(last_successful_created_date_str)
     THEN /\ current_date' = FirstDay(last_successful_created_date_str)
          /\ pc' = "day"
          /\ UNCHANGED <<exc, loc, feed>>
     ELSE /\ Raise("ValueError")
          /\ UNCHANGED current_date
  /\ UNCHANGED <<fsVars, runVars, clientVars, projects, cursorVars, completed,
                 page, repos, idx, resp, saves>>

\* `while current_date <= end_date`
DayLoop ==
  /\ pc = "day"
  /\ IF current_date <= EndDay
     THEN /\ page' = 1
          /\ pc' = "page"
     ELSE /\ pc' = "finally"
          /\ UNCHANGED page
  /\ resp' = NoResp
  /\ UNCHANGED <<fsVars, runVars, exc, clientVars, projects, cursorVars,
                 current_date, completed, repos, idx, loc, feed, saves>>

\* Variant: the day is advanced before it is recorded.
DayDoneOffByOne ==
  /\ last_successful_created_date_str' = strftime(current_date + 1)
  /\ completed' = completed \cup {current_date}
  /\ current_date' = current_date + 1
  /\ pc' = "day"

\* The pagination loop of a day was left by `break`:
\* last_successful_created_date_str = date_str; current_date += timedelta(days=1)
DayDone ==
  /\ last_successful_created_date_str' = strftime(current_date)
  /\ completed' = completed \cup {current_date}
  /\ current_date' = current_date + 1
  /\ pc' = "day"

\* `if github_client.request_count >= MAX_REQUESTS` of the pagination loop
BudgetSpent(n) == n >= MAX_REQUESTS

\* What the search API can return as 'items' of one page: up to per_page
\* repositories, none of them twice.
RepoIds == 1 .. MaxRepoId
ItemPages ==
  {p \in UNION {[1 .. k -> RepoIds] : k \in 0 .. per_page} :
     \A i, j \in 1 .. Len(p) : p[i] = p[j] => i = j}

\* Variant: the items are returned whatever the outcome of the request.
ListIgnoringFailure(o, items) == items

\* list_repositories: the items of the response, [] when there is none.
list_repositories(o, items) == IF IsResponse(o) THEN items ELSE <<>>

\* One turn of the pagination loop up to `for repo in repos`.
ListPage ==
  /\ pc = "page"
  /\ IF BudgetSpent(request_count)
     THEN /\ Raise("RunLimit")
          /\ resp' = NoResp
          /\ UNCHANGED <<clientVars, last_successful_created_date_str,
                         current_date, completed, repos, idx>>
     ELSE IF LimitReached(request_count)
     THEN /\ RequestRefused("list")
          /\ UNCHANGED <<last_successful_created_date_str, current_date,
                         completed, repos, idx>>
     ELSE /\ RequestIssued
          /\ \E o \in HttpOutcomes, items \in ItemPages :
               LET got == list_repositories(o, items)
               IN  /\ resp' = Resp("list", Outcome(o))
                   /\ IF got = <<>>
                      THEN /\ DayDone
                           /\ repos' = <<>>
                           /\ idx' = 0
                      ELSE /\ repos' = got
                           /\ idx' = 1
                           /\ pc' = "repo"
                           /\ UNCHANGED <<last_successful_created_date_str,
                                          current_date, completed>>
          /\ UNCHANGED <<exc, loc, feed>>
  /\ UNCHANGED <<fsVars, runVars, projects, loaded, page, saves>>

\* Variant: a full page ends the day as well.
PageExhaustedOffByOne(n) == n <= per_page

\* `if len(repos) < per_page`, where n is len(repos)
PageExhausted(n) == n < per_page

\* `for repo in repos` is exhausted: `if len(repos) < per_page: break`, else page += 1
EndOfPage ==
  /\ pc = "repo"
  /\ idx > Len(repos)
  /\ IF PageExhausted(Len(repos))
     THEN /\ DayDone
          /\ UNCHANGED page
     ELSE /\ page' = page + 1
          /\ pc' = "page"
          /\ UNCHANGED <<last_successful_created_date_str, current_date, completed>>
  /\ repos' = <<>>
  /\ idx' = 0
  /\ resp' = NoResp
  /\ UNCHANGED <<fsVars, runVars, exc, clientVars, projects, loaded, loc, feed, saves>>

\* Variant: the integer id is looked up among the string keys, and never found.
KnownNever(d, id) == FALSE

\* `if str(repo['id']) not in projects` is false: the candidate is passed over.
Known(d, id) == DictHas(d, str(id))

SkipKnown ==
  /\ pc = "repo"
  /\ idx <= Len(repos)
  /\ Known(projects, repos[idx])
  /\ idx' = idx + 1
  /\ resp' = NoResp
  /\ UNCHANGED <<fsVars, runVars, pc, exc, clientVars, projects, cursorVars,
                 current_date, completed, page, repos, loc, feed, saves>>

----------------------------------------------------------------------------
(* process_repository and the client calls it makes *)

\* Sizes in KB that the details of a repository can report as
\* repo_details['size']; the value is drawn where process_repository reads it.
RepoSizes == {1024, 1024000}

\* Variant: the result of get_repo_details is not tested.
NoDetailsIgnored(o) == FALSE

\* `if not repo_details` after get_repo_details returned for outcome o
DetailsUnavailable(o) == ~IsResponse(o)

\* get_repo_details + `if not repo_details: return None`
GetRepoDetails ==
  /\ pc = "repo"
  /\ idx <= Len(repos)
  /\ ~Known(projects, repos[idx])
  /\ IF LimitReached(request_count)
     THEN /\ RequestRefused("details")
          /\ UNCHANGED idx
     ELSE /\ RequestIssued
          /\ \E o \in HttpOutcomes :
               /\ resp' = Resp("details", Outcome(o))
               /\ IF ~DetailsUnavailable(o)
                  THEN /\ loc' = [Idle EXCEPT !.det = [id |-> repos[idx]]]
                       /\ pc' = "contributors"
                       /\ UNCHANGED idx
                  ELSE /\ loc' = Idle
                       /\ idx' = idx + 1
                       /\ UNCHANGED pc
          /\ UNCHANGED <<exc, feed>>
  /\ UNCHANGED <<fsVars, runVars, projects, cursorVars, current_date, completed,
                 page, repos, saves>>

\* Responses of the contributors endpoint: the status code, the page number
\* of rel="last" in the Link header (0: no such header), the length of the body.
ContributorResponses ==
  {[status |-> 204, last |-> 0, len |-> 0],
   [status |-> 200, last |-> 3, len |-> 1],
   [status |-> 200, last |-> 0, len |-> 1]}

\* get_contributors_count
get_contributors_count(o, r) ==
  IF ~IsResponse(o) \/ r.status = 204 THEN 0
  ELSE IF r.last # 0 THEN r.last
  ELSE r.len

GetContributors ==
  /\ pc = "contributors"
  /\ IF LimitReached(request_count)
     THEN RequestRefused("contributors")
     ELSE /\ RequestIssued
          /\ \E o \in HttpOutcomes, r \in ContributorResponses :
               /\ resp' = Resp("contributors", Outcome(o))
               /\ loc' = [loc EXCEPT !.contributors = get_contributors_count(o, r)]
          /\ pc' = "issues"
          /\ UNCHANGED <<exc, feed>>
  /\ UNCHANGED <<fsVars, runVars, projects, cursorVars, crawlVars, saves>>

\* 'total_count' of the issue search (absent: -1).
IssueTotals == {-1, 0, 2}

\* Variant: the total is read without looking at the outcome of the request.
IssuesIgnoringFailure(o, total) == IF total = -1 THEN 0 ELSE total

\* get_recent_open_issues_count: response.json().get('total_count', 0)
get_recent_open_issues_count(o, total) ==
  IF IsResponse(o) THEN (IF total = -1 THEN 0 ELSE total) ELSE 0

----------------------------------------------------------------------------
(* The event feed of a repository and get_new_stars_count *)

\* `if page > 3: break`
MaxEventPages == 3

WatchNew == [type |-> "WatchEvent", old |-> FALSE]
OtherNew == [type |-> "PushEvent", old |-> FALSE]
WatchOld == [type |-> "WatchEvent", old |-> TRUE]
OtherOld == [type |-> "PushEvent", old |-> TRUE]
\* old: created_at < date_since, the event lies before the trailing window
EventKinds == {WatchNew, OtherNew, WatchOld, OtherOld}

SeqsOf(S, lo, hi) == UNION {[1 .. k -> S] : k \in lo .. hi}

\* A feed: its pages in order (each a non-empty list of events), whether
\* the last page still carries a 'next' link (the feed goes on beyond the
\* pages given here; the page after them is empty), and the page whose
\* request fails (0: none fails).
FeedsOf(kinds, maxPages, maxEvents) ==
  {[pages |-> ps, more |-> m, fail |-> f] :
     ps \in SeqsOf(SeqsOf(kinds, 1, maxEvents), 0, maxPages),
     m \in BOOLEAN, f \in 0 .. (maxPages + 1)}

\* The events of pages from .. Len(ps), in feed order.
RECURSIVE Flatten(_)
Flatten(ps) == IF ps = <<>> THEN <<>> ELSE Head(ps) \o Flatten(Tail(ps))

\* Events are ordered newest first: nothing in the window follows an old event.
NewestFirst(f) ==
  LET es == Flatten(f.pages)
  IN  \A i, j \in 1 .. Len(es) : (i < j /\ es[i].old) => es[j].old

\* The feeds served during a crawl: at most one page with one in-window
\* WatchEvent; the page may carry a 'next' link, and the request for the
\* first page of an empty feed, or for the page after the link, may fail.
MainFeeds ==
  {f \in FeedsOf({WatchNew}, 1, 1) :
     /\ f.more => (Len(f.pages) = 1 /\ f.fail # 1)
     /\ f.fail = 1 => f.pages = <<>>
     /\ f.fail = 2 => f.more}

\* The outcome of the request for page p of feed f.
FeedOutcome(f, p) == IF f.fail = p THEN "transport_error" ELSE "ok"

\* response.json() for page p: a page beyond the feed is an empty list.
FeedEvents(f, p) == IF p <= Len(f.pages) THEN f.pages[p] ELSE <<>>

\* "next" in response.links for page p
HasNext(f, p) == p < Len(f.pages) \/ (p = Len(f.pages) /\ f.more)

\* Variant: the type of an event is looked at before its age.
RECURSIVE ScanEventsTypeFirst(_, _)
ScanEventsTypeFirst(events, count) ==
  IF events = <<>> THEN [count |-> count, old |-> FALSE]
  ELSE IF Head(events).type = "WatchEvent"
  THEN (IF Head(events).old THEN [count |-> count + 1, old |-> TRUE]
        ELSE ScanEventsTypeFirst(Tail(events), count + 1))
  ELSE IF Head(events).old THEN [count |-> count, old |-> TRUE]
  ELSE ScanEventsTypeFirst(Tail(events), count)

\* `for event in events`: the count after the scan, and whether the scan
\* returned on an event older than the window.
RECURSIVE ScanEvents(_, _)
ScanEvents(events, count) ==
  IF events = <<>> THEN [count |-> count, old |-> FALSE]
  ELSE IF Head(events).old THEN [count |-> count, old |-> TRUE]
  ELSE ScanEvents(Tail(events),
                  IF Head(events).type = "WatchEvent" THEN count + 1 ELSE count)

\* One turn of `while True` in get_new_stars_count, after the response for
\* page p arrived: the count, and whether the function returns.
StarsTurn(f, p, count) ==
  LET events == FeedEvents(f, p)
      sc == ScanEvents(events, count)
  IN  IF ~IsResponse(FeedOutcome(f, p)) THEN [count |-> count, done |-> TRUE]
      ELSE IF events = <<>> THEN [count |-> count, done |-> TRUE]
      ELSE IF sc.old THEN [count |-> sc.count, done |-> TRUE]
      ELSE IF ~HasNext(f, p) THEN [count |-> sc.count, done |-> TRUE]
      ELSE [count |-> sc.count, done |-> p + 1 > MaxEventPages]

\* get_recent_open_issues_count, then the first statements of get_new_stars_count
GetIssues ==
  /\ pc = "issues"
  /\ IF LimitReached(request_count)
     THEN RequestRefused("issues")
     ELSE /\ RequestIssued
          /\ \E o \in HttpOutcomes, total \in IssueTotals :
               /\ resp' = Resp("issues", Outcome(o))
               /\ loc' = [loc EXCEPT
                            !.new_open_issues = get_recent_open_issues_count(o, total),
                            !.count = 0, !.page = 1]
          /\ pc' = "stars"
          /\ UNCHANGED <<exc, feed>>
  /\ UNCHANGED <<fsVars, runVars, projects, cursorVars, crawlVars, saves>>

\* One page request of get_new_stars_count.  The feed the API serves is
\* drawn with the first request, unless it is given.  When the function
\* returns, loc.page is the number of the last page requested.
GetNewStarsPage ==
  /\ pc = "stars"
  /\ IF LimitReached(request_count)
     THEN RequestRefused("stars")
     ELSE /\ RequestIssued
          /\ \E f \in (IF feed = NoFeed THEN MainFeeds ELSE {feed}) :
               LET t == StarsTurn(f, loc.page, loc.count)
               IN  /\ feed' = f
                   /\ resp' = Resp("stars", Outcome(FeedOutcome(f, loc.page)))
                   /\ IF t.done
                      THEN /\ loc' = [loc EXCEPT !.count = t.count, !.readme = 1]
                           /\ pc' = "readme"
                      ELSE /\ loc' = [loc EXCEPT !.count = t.count,
                                                 !.page = loc.page + 1]
                           /\ pc' = "stars"
          /\ UNCHANGED exc
  /\ UNCHANGED <<fsVars, runVars, projects, cursorVars, crawlVars, saves>>

----------------------------------------------------------------------------
(* get_readme, get_code_line_count and the end of process_repository *)

\* `for readme_name in ('README.md', 'readme', 'README', 'readme.md')`
ReadmeNames == <<"README.md", "readme", "README", "readme.md">>

\* The body of a readme response: its decoded 'content', or a body for
\* which the lookup or the decoding raises KeyError / UnicodeDecodeError.
ReadmeBodies == {[decodes |-> TRUE, text |-> "docs"], [decodes |-> FALSE, text |-> ""]}

\* One turn of the loop of get_readme for ReadmeNames[loc.readme].
GetReadme ==
  /\ pc = "readme"
  /\ IF LimitReached(request_count)
     THEN RequestRefused("readme")
     ELSE /\ RequestIssued
          /\ \E o \in HttpOutcomes, body \in ReadmeBodies :
               /\ resp' = Resp("readme", Outcome(o))
               /\ IF IsResponse(o) /\ body.decodes
                  THEN /\ loc' = [loc EXCEPT !.readme_content = body.text]
                       /\ pc' = "codelines"
                  ELSE IF loc.readme < Len(ReadmeNames)
                  THEN /\ loc' = [loc EXCEPT !.readme = loc.readme + 1]
                       /\ pc' = "readme"
                  ELSE /\ loc' = [loc EXCEPT !.readme_content = ""]
                       /\ pc' = "codelines"
          /\ feed' = NoFeed
          /\ UNCHANGED exc
  /\ UNCHANGED <<fsVars, runVars, projects, cursorVars, crawlVars, saves>>

\* shutil.disk_usage("."): the free bytes, or -1 when the call raises.
DiskStates == {-1, 0, 2000000000}

\* `repo_size * 1024 > free and repo_size / 1024 > 500`
SkipClone(repo_size, free) == repo_size * 1024 > free /\ repo_size > 500 * 1024

\* get_code_line_count: returns 0 when the clone is skipped; otherwise it
\* clones and calls self._count_code_lines(repo_name), a function defined
\* without `self`, so the call raises TypeError.
get_code_line_count(repo_size, disk) ==
  IF disk # -1 /\ SkipClone(repo_size, disk)
  THEN [raises |-> FALSE, value |-> 0, cloned |-> FALSE]
  ELSE [raises |-> TRUE, value |-> 0, cloned |-> TRUE]

\* The dict process_repository returns.
EntryOf(l, lines) ==
  [id |-> l.det.id, contributors |-> l.contributors,
   new_open_issues |-> l.new_open_issues, new_stars_30d |-> l.count,
   code_line_count |-> lines]

\* get_code_line_count, the return of process_repository and
\* `if project_data: projects[str(repo['id'])] = project_data`
CountCodeLines ==
  /\ pc = "codelines"
  /\ \E size \in RepoSizes, disk \in DiskStates :
       LET r == get_code_line_count(size, disk)
       IN  IF r.raises
           THEN /\ Raise("TypeError(_count_code_lines)")
                /\ UNCHANGED <<projects, idx>>
           ELSE /\ projects' = DictSet(projects, str(repos[idx]), EntryOf(loc, r.value))
                /\ idx' = idx + 1
                /\ pc' = "repo"
                /\ loc' = Idle
                /\ UNCHANGED <<exc, feed>>
  /\ resp' = NoResp
  /\ UNCHANGED <<fsVars, runVars, clientVars, cursorVars, current_date, completed,
                 page, repos, saves>>

----------------------------------------------------------------------------
(* The finally block of main *)

\* Variant: the day being processed is saved.
CursorOfCurrentDay == strftime(current_date)

\* The argument of save_progress in the finally block.
CursorToSave == last_successful_created_date_str

\* save_progress: open(PROGRESS_FILE, 'w') either succeeds and the cursor is
\* dumped, or raises OSError, which leaves the finally block and ends the process.
SaveProgress ==
  /\ pc = "finally"
  /\ \E written \in BOOLEAN :
       /\ saves' = Append(saves, [file |-> PROGRESS_FILE, written |-> written])
       /\ IF written
          THEN /\ progressFile' = ProgressOf(CursorToSave)
               /\ pc' = "save_projects"
               /\ UNCHANGED exc
          ELSE /\ exc' = "OSError"
               /\ pc' = "exit"
               /\ UNCHANGED progressFile
  /\ resp' = NoResp
  /\ UNCHANGED <<files, runVars, clientVars, projects, cursorVars, crawlVars, loc, feed>>

\* save_projects_to_json(projects, args.output): an IOError of the write is
\* logged and swallowed.
SaveProjects ==
  /\ pc = "save_projects"
  /\ \E written \in BOOLEAN :
       /\ saves' = Append(saves, [file |-> output, written |-> written])
       /\ IF written
          THEN files' = [files EXCEPT ![output] = CatalogOf(DictValues(projects))]
          ELSE UNCHANGED files
  /\ pc' = "exit"
  /\ resp' = NoResp
  /\ UNCHANGED <<progressFile, runVars, exc, clientVars, projects, cursorVars,
                 crawlVars, loc, feed>>

\* The process has ended; the program is started again on the same files.
NextRun ==
  /\ pc = "exit"
  /\ run < MaxRuns
  /\ run' = run + 1
  /\ done_before' = done_before \cup completed
  /\ \E o \in Outputs :
       /\ output' = o
       /\ pc' = "load"
       /\ exc' = "none"
       /\ request_count' = 0
       /\ issued' = 0
       /\ projects' = <<>>
       /\ loaded' = NotLoaded
       /\ last_successful_created_date_str' = NoCursor
       /\ current_date' = 0
       /\ completed' = {}
       /\ page' = 0
       /\ repos' = <<>>
       /\ idx' = 0
       /\ loc' = Idle
       /\ feed' = NoFeed
       /\ resp' = NoResp
       /\ saves' = <<>>
  /\ UNCHANGED fsVars

Next ==
  \/ LoadProgress
  \/ ParseCursor
  \/ DayLoop
  \/ ListPage
  \/ EndOfPage
  \/ SkipKnown
  \/ GetRepoDetails
  \/ GetContributors
  \/ GetIssues
  \/ GetNewStarsPage
  \/ GetReadme
  \/ CountCodeLines
  \/ SaveProgress
  \/ SaveProjects
  \/ NextRun

Spec == Init /\ [][Next]_vars

----------------------------------------------------------------------------
(* get_new_stars_count on its own: the call is made on any newest-first    *)
(* feed by a client whose budget allows three, two, one or no request.     *)
(* In this specification `issued` counts the requests of the call.         *)

StarFeeds ==
  {f \in FeedsOf(EventKinds, FeedPages, MaxEvents) :
     /\ NewestFirst(f)
     /\ f.fail <= Len(f.pages)
     /\ f.more => Len(f.pages) = FeedPages}

InitStars ==
  /\ progressFile = AbsentProgress
  /\ files = [n \in Outputs |-> AbsentFile]
  /\ run = 1
  /\ done_before = {}
  /\ output = DefaultCatalog
  /\ pc = "stars"
  /\ exc = "none"
  /\ request_count \in (MAX_REQUESTS - MaxEventPages) .. MAX_REQUESTS
  /\ issued = 0
  /\ projects = <<>>
  /\ loaded = [from |-> "absent", cursor |-> start_date]
  /\ last_successful_created_date_str = start_date
  /\ current_date = 0
  /\ completed = {}
  /\ page = 1
  /\ repos = <<1>>
  /\ idx = 1
  /\ loc = [Idle EXCEPT !.det = [id |-> 1], !.page = 1]
  /\ feed \in StarFeeds
  /\ resp = NoResp
  /\ saves = <<>>

NextStars == GetNewStarsPage

SpecStars == InitStars /\ [][NextStars]_vars

----------------------------------------------------------------------------
(* get_code_line_count on its own: the call is made for any reported size  *)
(* (in KB) and any amount of free disk space (in bytes, -1 when            *)
(* shutil.disk_usage raises).                                              *)

ReportedSizes == {0, 1, 1024, 511999, 512000, 512001, 1024000, 2000000}
FreeBytes ==
  {-1, 0, 1024, 1048576, 524288000, 524289024, 1048576000, 2000000000}

\* The arguments of a call of get_code_line_count and its outcome.
CodeLineCall(repo_size, free) ==
  [repo_size |-> repo_size, free |-> free,
   outcome |-> [raises |-> FALSE, value |-> -1, cloned |-> FALSE]]

InitCodeLines ==
  /\ progressFile = AbsentProgress
  /\ files = [n \in Outputs |-> AbsentFile]
  /\ run = 1
  /\ done_before = {}
  /\ output = DefaultCatalog
  /\ pc = "code_line_count"
  /\ exc = "none"
  /\ request_count = 0
  /\ issued = 0
  /\ projects = <<>>
  /\ loaded = [from |-> "absent", cursor |-> start_date]
  /\ last_successful_created_date_str = start_date
  /\ current_date = 0
  /\ completed = {}
  /\ page = 1
  /\ repos = <<1>>
  /\ idx = 1
  /\ \E repo_size \in ReportedSizes, free \in FreeBytes :
       loc = CodeLineCall(repo_size, free)
  /\ feed = NoFeed
  /\ resp = NoResp
  /\ saves = <<>>

\* code_line_count = github_client.get_code_line_count(..., repo_details['size'])
GetCodeLineCount ==
  /\ pc = "code_line_count"
  /\ LET r == get_code_line_count(loc.repo_size, loc.free)
     IN  /\ loc' = [loc EXCEPT !.outcome = r]
         /\ exc' = IF r.raises THEN "TypeError(_count_code_lines)" ELSE "none"
  /\ pc' = "code_line_count_done"
  /\ UNCHANGED <<fsVars, runVars, clientVars, projects, cursorVars, crawlVars,
                 feed, resp, saves>>

NextCodeLines == GetCodeLineCount

SpecCodeLines == InitCodeLines /\ [][NextCodeLines]_vars

----------------------------------------------------------------------------
(* generate_keywords *)

\* Python's optional str: None, or a string.
None == [isNone |-> TRUE, s |-> ""]
Str(x) == [isNone |-> FALSE, s |-> x]
\* `if description` / `language and ...`: neither None nor empty.
Truthy(v) == ~v.isNone /\ v.s # ""

UpperLetters == "ABCDEFGHIJKLMNOPQRSTUVWXYZ"
LowerLetters == "abcdefghijklmnopqrstuvwxyz"
Char(s, i) == SubSeq(s, i, i)
Rest(s) == SubSeq(s, 2, Len(s))

\* The character of `to` at the place c has in `from`; c when it has none.
MapChar(c, from, to) ==
  IF \E i \in 1 .. Len(from) : Char(from, i) = c
  THEN Char(to, CHOOSE i \in 1 .. Len(from) : Char(from, i) = c)
  ELSE c

\* str.lower()
RECURSIVE lower(_)
lower(s) ==
  IF Len(s) = 0 THEN ""
  ELSE MapChar(Char(s, 1), UpperLetters, LowerLetters) \o lower(Rest(s))

\* str.upper()
RECURSIVE upper(_)
upper(s) ==
  IF Len(s) = 0 THEN ""
  ELSE MapChar(Char(s, 1), LowerLetters, UpperLetters) \o upper(Rest(s))

\* str.capitalize()
capitalize(s) ==
  IF Len(s) = 0 THEN ""
  ELSE MapChar(Char(s, 1), LowerLetters, UpperLetters) \o lower(Rest(s))

\* s without its leading blanks
RECURSIVE DropSpaces(_)
DropSpaces(s) ==
  IF Len(s) > 0 /\ Char(s, 1) = " " THEN DropSpaces(Rest(s)) ELSE s

\* re.split(r'\s+|,|\.', cur + s), where cur holds no separator
RECURSIVE Split(_, _)
Split(s, cur) ==
  IF Len(s) = 0 THEN <<cur>>
  ELSE IF Char(s, 1) = " " THEN <<cur>> \o Split(DropSpaces(s), "")
  ELSE IF Char(s, 1) \in {",", "."} THEN <<cur>> \o Split(Rest(s), "")
  ELSE Split(Rest(s), cur \o Char(s, 1))

\* TOPIC_MAP.items(), in the order of the dict literal
TOPIC_MAP ==
  << [general |-> "web",
      specific |-> {"web", "website", "webapp", "frontend", "backend",
                    "fullstack", "http", "server", "nextjs", "react", "vue"}],
     [general |-> "ai",
      specific |-> {"ai", "ml", "artificial-intelligence", "machine-learning",
                    "deep-learning", "nlp", "computer-vision", "llm", "agent"}],
     [general |-> "database",
      specific |-> {"database", "sql", "nosql", "storage"}],
     [general |-> "mobile",
      specific |-> {"mobile", "android", "ios", "flutter", "react-native"}],
     [general |-> "game",
      specific |-> {"game", "gamedev", "gaming", "unity", "unreal"}],
     [general |-> "cli",
      specific |-> {"cli", "command-line", "terminal", "shell"}],
     [general |-> "data-science",
      specific |-> {"data-science", "data-analysis", "data-visualization",
                    "pandas", "numpy", "jupyter"}],
     [general |-> "devops",
      specific |-> {"devops", "docker", "kubernetes", "ci-cd", "automation",
                    "terraform"}],
     [general |-> "security",
      specific |-> {"security", "cybersecurity", "vulnerability", "pentesting"}],
     [general |-> "blockchain",
      specific |-> {"blockchain", "crypto", "web3"}],
     [general |-> "framework", specific |-> {"framework", "library"}],
     [general |-> "testing", specific |-> {"testing", "test", "tdd", "bdd"}],
     [general |-> "tool", specific |-> {"tool", "utility", "plugin"}] >>

ACRONYMS == {"AI", "ML", "NLP", "API", "CLI", "CI-CD", "SQL"}

\* `[:3]` and `len(normalized) >= 3`
MaxKeywords == 3

\* First pass: the general topics some topic of the list belongs to.
TopicPass(topics) ==
  {TOPIC_MAP[k].general : k \in
     {k \in 1 .. Len(TOPIC_MAP) :
        \E i \in 1 .. Len(topics) : lower(topics[i]) \in TOPIC_MAP[k].specific}}

\* `for general_topic, specific_topics in TOPIC_MAP.items()` of the second
\* pass, from entry k on: a match is added, and the loop is left once
\* MaxKeywords are there.
RECURSIVE ScanMap(_, _, _)
ScanMap(word, k, normalized) ==
  IF k > Len(TOPIC_MAP) THEN normalized
  ELSE IF word \in TOPIC_MAP[k].specific /\ TOPIC_MAP[k].general \notin normalized
  THEN (IF Cardinality(normalized) + 1 >= MaxKeywords
        THEN normalized \cup {TOPIC_MAP[k].general}
        ELSE ScanMap(word, k + 1, normalized \cup {TOPIC_MAP[k].general}))
  ELSE ScanMap(word, k + 1, normalized)

\* `for word in re.split(...)`, left once MaxKeywords are there.
RECURSIVE ScanWords(_, _)
ScanWords(words, normalized) ==
  IF words = <<>> THEN normalized
  ELSE LET n == ScanMap(Head(words), 1, normalized)
       IN  IF Cardinality(n) >= MaxKeywords THEN n ELSE ScanWords(Tail(words), n)

\* text_to_search
TextToSearch(description, readme_content) ==
  (IF Truthy(description) THEN lower(description.s) ELSE "")
    \o " " \o lower(readme_content)

\* The set `normalized` after both passes.
Normalized(topics, description, readme_content) ==
  LET n == TopicPass(topics)
  IN  IF Cardinality(n) < MaxKeywords
      THEN ScanWords(Split(TextToSearch(description, readme_content), ""), n)
      ELSE n

\* list(S): the elements of a set of str in the iteration order of the
\* process, which follows the hashes of the strings and so the hash seed of
\* the process: any order of the elements can come out.
ListsOf(S) ==
  {l \in [1 .. Cardinality(S) -> S] : \A i, j \in DOMAIN l : l[i] = l[j] => i = j}

\* `k.upper() if k.upper() in ACRONYMS else k.capitalize()`, for each key
\* of TOPIC_MAP
RenderOf ==
  [g \in {TOPIC_MAP[k].general : k \in 1 .. Len(TOPIC_MAP)} |->
     IF upper(g) \in ACRONYMS THEN upper(g) ELSE capitalize(g)]

Render(k) == RenderOf[k]

\* Variant: the list is not cut to MaxKeywords.
FinalKeywordsUncut(listed) == [i \in 1 .. Len(listed) |-> Render(listed[i])]

\* final_keywords, where listed is list(normalized)
FinalKeywords(listed) ==
  [i \in 1 .. (IF Len(listed) < MaxKeywords THEN Len(listed) ELSE MaxKeywords)
     |-> Render(listed[i])]

\* Variant: a known language is returned whatever was matched.
KeywordsLanguageFirst(listed, language) ==
  IF Truthy(language) /\ language.s # "N/A" THEN <<language.s>>
  ELSE IF listed # <<>> THEN FinalKeywords(listed) ELSE <<"Tool">>

\* The return value of generate_keywords, where listed is list(normalized).
generate_keywords(listed, language) ==
  LET final_keywords == FinalKeywords(listed)
  IN  IF final_keywords = <<>> /\ Truthy(language) /\ language.s # "N/A"
      THEN <<language.s>>
      ELSE IF final_keywords # <<>> THEN final_keywords ELSE <<"Tool">>

\* Topics a repository can carry; a repository carries each at most once.
TopicWords == <<"nextjs", "react", "AI", "sql", "cli", "zz">>
TopicLists ==
  {SelectSeq(TopicWords, LAMBDA w : w \in S) :
     S \in SUBSET {TopicWords[i] : i \in 1 .. Len(TopicWords)}}
Descriptions == {None, Str(""), Str("A Docker tool.")}
Readmes == {"", "Game engine,  Web3 and tdd"}
Languages == {None, Str(""), Str("N/A"), Str("TypeScript")}

\* `normalized` for each of these arguments.
NormalizedOf ==
  [t \in TopicLists, d \in Descriptions, r \in Readmes |-> Normalized(t, d, r)]

\* The arguments of a call of generate_keywords and what its calls returned.
KeywordCall(t, d, r, l) ==
  [topics |-> t, description |-> d, readme_content |-> r, language |-> l,
   listed |-> <<>>, keywords |-> <<>>, again |-> <<>>]

\* generate_keywords on its own: it is called on any arguments, and then
\* once more on the same arguments, by the same process or by the process
\* of the next run.
InitKeywords ==
  /\ progressFile = AbsentProgress
  /\ files = [n \in Outputs |-> AbsentFile]
  /\ run = 1
  /\ done_before = {}
  /\ output = DefaultCatalog
  /\ pc = "keywords"
  /\ exc = "none"
  /\ request_count = 0
  /\ issued = 0
  /\ projects = <<>>
  /\ loaded = [from |-> "absent", cursor |-> start_date]
  /\ last_successful_created_date_str = start_date
  /\ current_date = 0
  /\ completed = {}
  /\ page = 1
  /\ repos = <<1>>
  /\ idx = 1
  /\ \E t \in TopicLists, d \in Descriptions, r \in Readmes, l \in Languages :
       loc = KeywordCall(t, d, r, l)
  /\ feed = NoFeed
  /\ resp = NoResp
  /\ saves = <<>>

\* keywords = generate_keywords(topics, description, readme_content, language)
GenerateKeywords ==
  /\ pc = "keywords"
  /\ \E listed \in ListsOf(NormalizedOf[loc.topics, loc.description,
                                          loc.readme_content]) :
       loc' = [loc EXCEPT !.listed = listed,
                          !.keywords = generate_keywords(listed, loc.language)]
  /\ pc' = "keywords_again"
  /\ UNCHANGED <<fsVars, runVars, exc, clientVars, projects, cursorVars,
                 crawlVars, feed, resp, saves>>

\* The call is made again: in the same process the set is listed as
\* before, in another process in the order of that process.
GenerateKeywordsAgain ==
  /\ pc = "keywords_again"
  /\ \E r \in {run, run + 1} :
       /\ r <= MaxRuns
       /\ run' = r
       /\ \E listed \in (IF r = run THEN {loc.listed}
                         ELSE ListsOf(NormalizedOf[loc.topics, loc.description,
                                                  loc.readme_content])) :
            loc' = [loc EXCEPT !.again = generate_keywords(listed, loc.language)]
  /\ pc' = "keywords_done"
  /\ UNCHANGED <<fsVars, output, done_before, exc, clientVars, projects,
                 cursorVars, crawlVars, feed, resp, saves>>

NextKeywords == GenerateKeywords \/ GenerateKeywordsAgain

SpecKeywords == InitKeywords /\ [][NextKeywords]_vars

----------------------------------------------------------------------------
(* Properties *)

MaxOf(S) == CHOOSE x \in S : \A y \in S : y <= x

\* save_progress wrote the checkpoint in this run.
ProgressWritten == saves # <<>> /\ saves[1].written

\* The candidate of `for repo in repos` has an entry in the in-memory catalog.
CandidateInCatalog ==
  /\ pc = "repo"
  /\ idx <= Len(repos)
  /\ \E i \in 1 .. Len(projects) : projects[i].val.id = repos[idx]

\* The next step calls _make_request.
AtCallSite ==
  \/ pc \in {"contributors", "issues", "stars", "readme"}
  \/ pc = "repo" /\ idx <= Len(repos) /\ ~CandidateInCatalog

\* C1: request_count starts at 0, grows by exactly 1 with every request
\* issued and is never decreased within a run; a call attempted at or above
\* MAX_REQUESTS raises without changing the counter and without issuing a
\* request; so request_count <= MAX_REQUESTS always and at most
\* MAX_REQUESTS requests are issued per run.
C1_RequestBudget ==
  /\ [](pc = "load" => request_count = 0)
  /\ [](request_count = issued /\ request_count <= MAX_REQUESTS /\ issued <= MAX_REQUESTS)
  /\ [][run' = run =>
          /\ request_count' \in {request_count, request_count + 1}
          /\ request_count' - request_count = issued' - issued]_vars
  /\ [][(AtCallSite /\ request_count >= MAX_REQUESTS) =>
          (exc' = "RequestLimit" /\ UNCHANGED <<request_count, issued>>)]_vars

\* A call was refused with the counter at the ceiling.
C1_Witness ==
  /\ exc = "RequestLimit"
  /\ resp.outcome = "refused"
  /\ request_count = MAX_REQUESTS
  /\ issued = MAX_REQUESTS

\* main passed load_progress and entered its try block.
EnteredTry == loaded.from # "none" /\ exc # "TypeError(load_progress)"

\* C2: once main is in the crawl, whatever ends it, the run writes the
\* checkpoint with save_progress and then the catalog with
\* save_projects_to_json before the process exits.
C2_AlwaysPersists ==
  (pc = "exit" /\ EnteredTry) =>
    /\ Len(saves) = 2
    /\ saves[1] = [file |-> PROGRESS_FILE, written |-> TRUE]
    /\ saves[2] = [file |-> output, written |-> TRUE]

\* Cursor b is not earlier than cursor a.
NotEarlier(a, b) ==
  IF Parses(a) /\ Parses(b) THEN strptime(a) <= strptime(b) ELSE a = b

\* The run was ended by an exception raised while a day was being processed.
FailedMidDay ==
  exc \in {"RunLimit", "RequestLimit", "TypeError(_count_code_lines)"}

\* The cursor written is the loaded one when no day was completed, and the
\* latest completed day otherwise; it is not earlier than the loaded one.
CursorIsLoadedOrLatest ==
  /\ NotEarlier(loaded.cursor, progressFile.cursor)
  /\ IF completed = {}
     THEN progressFile = ProgressOf(loaded.cursor)
     ELSE progressFile = ProgressOf(strftime(MaxOf(completed)))

\* C3 as stated: ..., and a run that fails in the middle of a day never
\* persists that day as the cursor.
C3_NeverThePartialDay ==
  (pc = "save_projects" /\ ProgressWritten) =>
    /\ CursorIsLoadedOrLatest
    /\ FailedMidDay => progressFile.cursor # strftime(current_date)

\* C3 (amended): the cursor written by save_progress is never earlier than
\* the loaded cursor and is either the loaded cursor or the latest day whose
\* pagination loop ran to completion in this run; a run that fails in the
\* middle of a day never persists that day as the cursor, unless it is the
\* day of the loaded cursor, which is then written back unchanged.
C3_CursorNeverRegresses ==
  (pc = "save_projects" /\ ProgressWritten) =>
    /\ CursorIsLoadedOrLatest
    /\ (FailedMidDay /\ progressFile.cursor = strftime(current_date)) =>
         (completed = {} /\ progressFile.cursor = loaded.cursor)

\* A run completed a day, failed in the middle of the next one and
\* persisted the completed day.
C3_Witness ==
  /\ pc = "save_projects"
  /\ ProgressWritten
  /\ FailedMidDay
  /\ completed # {}
  /\ current_date = MaxOf(completed) + 1
  /\ progressFile.cursor = strftime(MaxOf(completed))
  /\ progressFile.cursor # loaded.cursor

\* C4: while the request budget is not exhausted, process_repository never
\* raises; when the details fetch succeeds the code-line-count step yields
\* a number and the entry is returned.
C4_ProcessNeverRaises ==
  exc = "TypeError(_count_code_lines)" => request_count >= MAX_REQUESTS

UniqueIds(plist) ==
  \A i, j \in 1 .. Len(plist) : plist[i].id = plist[j].id => i = j

\* C5: across runs the catalog holds at most one entry per repository id; a
\* candidate whose id is already a key of the in-memory catalog triggers no
\* request and leaves the catalog, and so its entry, unchanged.
C5_NoDuplicates ==
  /\ [](\A n \in Outputs : UniqueIds(files[n].projects))
  /\ [](/\ UniqueIds(DictValues(projects))
        /\ \A i \in 1 .. Len(projects) : projects[i].key = str(projects[i].val.id))
  /\ [][CandidateInCatalog =>
          (UNCHANGED <<request_count, issued, projects>> /\ idx' = idx + 1)]_vars
  /\ [][(run' = run /\ pc # "load") =>
          \A i \in 1 .. Len(projects) :
             Len(projects') >= i /\ projects'[i] = projects[i]]_vars

\* In a second run a listed candidate is found in the catalog with the
\* entry an earlier run enriched and persisted.
C5_Witness ==
  /\ run = 2
  /\ CandidateInCatalog
  /\ \E i \in 1 .. Len(projects) :
       /\ projects[i].val.id = repos[idx]
       /\ projects[i].val.contributors = 3
       /\ projects[i].val \in Entries(files[DefaultCatalog])

\* C6: each entry that was in the catalog output file before a run is still
\* in the catalog file the run writes, for every state of the checkpoint
\* file and every --output destination.
C6_CatalogOnlyGrows ==
  [][(pc = "save_projects" /\ files'[output] # files[output]) =>
       Entries(files[output]) \subseteq Entries(files'[output])]_vars

\* The checkpoint file is there but malformed.
Malformed(pf) ==
  \/ pf.kind \in {"undecodable", "wrongshape"}
  \/ pf.kind = "dict" /\ ~pf.has

\* C7: a malformed checkpoint file is treated as an absent one: load returns
\* the origin cursor and an empty catalog and does not raise.
C7_MalformedIsAbsent ==
  (loaded.from # "none" /\ saves = <<>> /\ pc \in {"parse", "exit"}
     /\ Malformed(progressFile)) =>
    /\ exc = "none"
    /\ loaded.cursor = "2008-01-01"
    /\ projects = <<>>

\* C8: with the checkpoint file absent load_progress returns the origin
\* cursor '2008-01-01' and an empty catalog, and the save_progress that
\* follows one fully processed day persists that day's date string.
C8_AbsentCheckpoint ==
  /\ (pc = "parse" /\ loaded.from = "absent") =>
       /\ loaded.cursor = "2008-01-01"
       /\ last_successful_created_date_str = "2008-01-01"
       /\ projects = <<>>
       /\ exc = "none"
  /\ (pc = "save_projects" /\ loaded.from = "absent" /\ completed = {0}
        /\ ProgressWritten) =>
       /\ progressFile = ProgressOf("2008-01-01")
       /\ Len(progressFile.cursor) = 10

\* A run that found no checkpoint completed exactly the origin day and
\* wrote its checkpoint.
C8_Witness ==
  /\ pc = "save_projects"
  /\ loaded.from = "absent"
  /\ completed = {0}
  /\ current_date = 1
  /\ ProgressWritten

StarsReturned == pc = "readme" /\ loc.readme = 1 /\ resp.site = "stars"

\* The number of WatchEvents of es that precede its first old event.
WatchBeforeOld(es) ==
  Cardinality({i \in 1 .. Len(es) :
                 es[i].type = "WatchEvent" /\ \A j \in 1 .. i : ~es[j].old})

\* The pages of f whose events the walk received when page n was the last
\* one it requested.
PagesRead(f, n) ==
  IF f.fail = n THEN n - 1 ELSE IF n > Len(f.pages) THEN Len(f.pages) ELSE n

\* Page q of f gives no reason to stop: it arrived, is not empty, holds no
\* event older than the window and carries a 'next' link.
GoesOn(f, q) ==
  /\ f.fail # q
  /\ q <= Len(f.pages)
  /\ \A i \in 1 .. Len(f.pages[q]) : ~f.pages[q][i].old
  /\ HasNext(f, q)

\* At most 3 page requests are issued, and none after a page that failed,
\* was empty, held an old event or had no 'next' link.
StopsPaging ==
  /\ issued <= MaxEventPages
  /\ pc = "stars" => issued = loc.page - 1
  /\ StarsReturned => issued = loc.page
  /\ (pc = "stars" \/ StarsReturned) =>
       \A q \in 1 .. (loc.page - 1) : GoesOn(feed, q)

\* C10 as stated: for every newest-first feed get_new_stars_count returns
\* the number of WatchEvents of the feed that precede its first event older
\* than the window, with at most 3 page requests and none after a reason
\* to stop.
C10_CountsTheFeed ==
  /\ StopsPaging
  /\ StarsReturned => loc.count = WatchBeforeOld(Flatten(feed.pages))

\* C10 (amended): whenever get_new_stars_count returns, it returns the
\* number of WatchEvents that precede the first event older than the window
\* among the events of the pages it received (the first pages of the feed,
\* at most 3, up to a page whose request failed); it issues at most 3 page
\* requests, and none after a page that failed, was empty, held an old
\* event or had no 'next' link.
C10_CountsThePagesRead ==
  /\ StopsPaging
  /\ StarsReturned =>
       loc.count =
         WatchBeforeOld(Flatten(SubSeq(feed.pages, 1, PagesRead(feed, loc.page))))

\* Page 1 holds only in-window WatchEvents, the first event of page 2 is
\* older than the window: the count of page 1 is returned and page 3 is
\* never requested.
C10_Witness ==
  /\ StarsReturned
  /\ Len(feed.pages) = 3
  /\ feed.fail = 0
  /\ \A i \in 1 .. Len(feed.pages[1]) : feed.pages[1][i] = WatchNew
  /\ Len(feed.pages[1]) = MaxEvents
  /\ feed.pages[2][1].old
  /\ loc.count = MaxEvents
  /\ loc.page = 2
  /\ issued = 2

\* generate_keywords has returned.
KeywordsReturned == pc \in {"keywords_again", "keywords_done"}

\* The general topics that hold one of the words.
GeneralsOf(words) ==
  {TOPIC_MAP[k].general : k \in
     {k \in 1 .. Len(TOPIC_MAP) :
        \E i \in 1 .. Len(words) : words[i] \in TOPIC_MAP[k].specific}}

\* The general topics matched by the topics in lower case, for each list.
TopicMatchesOf ==
  [t \in TopicLists |-> GeneralsOf([i \in 1 .. Len(t) |-> lower(t[i])])]

\* The general topics matched by the tokens of the text, for each text.
TextMatchesOf ==
  [d \in Descriptions, r \in Readmes |->
     GeneralsOf(Split(TextToSearch(d, r), ""))]

\* The general topics some topic of the call matches.
TopicMatches == TopicMatchesOf[loc.topics]

\* The general topics some token of the description or the readme matches.
TextMatches == TextMatchesOf[loc.description, loc.readme_content]

C12_SameInputsSameLabels ==
  pc = "keywords_done" => loc.again = loc.keywords

\* The label of a category: in upper case for the acronyms among them,
\* capitalized otherwise.
LabelOf ==
  [g \in {TOPIC_MAP[k].general : k \in 1 .. Len(TOPIC_MAP)} |->
     IF g \in {"ai", "cli"} THEN upper(g) ELSE capitalize(g)]

C13_EitherConditionSkips ==
  (pc = "code_line_count_done" /\ loc.free # -1
     /\ (loc.free < loc.repo_size * 1024 \/ loc.repo_size > 500 * 1024)) =>
    /\ ~loc.outcome.cloned
    /\ ~loc.outcome.raises
    /\ loc.outcome.value = 0

\* C15: when the details fetch for a candidate returns null,
\* process_repository returns null after exactly one outbound request and
\* issues none of the other sub-fetches, the candidate is not added to the
\* catalog, and the run continues with the next candidate of the same page
\* without another attempt on the failed one.
C15_SkippedWithoutDetails ==
  /\ [][(resp'.site = "details" /\ resp'.outcome = "failed") =>
          /\ pc = "repo" /\ pc' = "repo"
          /\ issued' = issued + 1
          /\ request_count' = request_count + 1
          /\ projects' = projects
          /\ repos' = repos /\ page' = page /\ current_date' = current_date
          /\ idx' = idx + 1
          /\ loc' = Idle
          /\ exc' = "none"]_vars
  /\ [](resp = Resp("details", "failed") =>
          \A i \in 1 .. Len(projects) : projects[i].val.id # repos[idx - 1])
  /\ [][resp = Resp("details", "failed") =>
          /\ resp'.site \in {"none", "details"}
          /\ idx' >= idx \/ pc' # "repo"]_vars

\* The details of the first candidate of a page were unavailable, it is not
\* in the catalog, and the details of the second candidate have arrived.
C15_Witness ==
  /\ pc = "contributors"
  /\ idx = 2
  /\ loc.det.id = repos[2]
  /\ issued = 3
  /\ \A i \in 1 .. Len(projects) : projects[i].val.id # repos[1]

\* The day ordinal of the cursor load_progress returned.
LoadedDay == strptime(loaded.cursor)

\* main is inside `while current_date <= end_date`.
InDayLoop ==
  pc \in {"day", "page", "repo", "contributors", "issues", "stars", "readme",
          "codelines"}

\* C16: for each calendar day the crawl requests pages 1, 2, 3, ... in
\* order and stops paging at the first page that is empty or holds fewer
\* than per_page items; only then is the day recorded as the last
\* successful day and the crawl moves to the next day; the days are visited
\* consecutively from the loaded cursor up to and including the current
\* date and never beyond it.
C16_PagesThenDays ==
  /\ [][pc' = "page" =>
          \/ pc = "day" /\ page' = 1 /\ current_date <= EndDay
          \/ /\ pc = "repo" /\ idx > Len(repos) /\ Len(repos) = per_page
             /\ page' = page + 1
             /\ UNCHANGED <<current_date, completed,
                            last_successful_created_date_str>>]_vars
  /\ [][(pc = "page" /\ run' = run) => page' = page]_vars
  /\ [][(run' = run /\ completed' # completed) =>
          /\ \/ pc = "page" /\ resp'.site = "list" /\ repos' = <<>>
             \/ pc = "repo" /\ idx > Len(repos) /\ Len(repos) < per_page
          /\ completed' = completed \cup {current_date}
          /\ last_successful_created_date_str' = strftime(current_date)
          /\ current_date' = current_date + 1
          /\ pc' = "day"]_vars
  /\ [][(pc = "repo" /\ idx > Len(repos) /\ Len(repos) < per_page) =>
          (completed' = completed \cup {current_date} /\ pc' = "day")]_vars
  /\ [][(pc = "page" /\ resp'.site = "list" /\ resp'.outcome # "refused"
           /\ repos' = <<>>) =>
          (completed' = completed \cup {current_date} /\ pc' = "day")]_vars
  /\ [][(run' = run /\ pc # "parse" /\ current_date' # current_date) =>
          completed' # completed]_vars
  /\ []((InDayLoop /\ Parses(loaded.cursor)) =>
          /\ current_date >= LoadedDay
          /\ completed = LoadedDay .. (current_date - 1)
          /\ pc # "day" => current_date <= EndDay)
  /\ []((pc = "finally" /\ exc = "none") =>
          /\ current_date > EndDay
          /\ completed = LoadedDay .. EndDay)

\* Page 1 of the first day was full, page 2 was requested and was short or
\* empty, the day was recorded and the crawl stands at the next day.
C16_Witness ==
  /\ pc = "day"
  /\ page = 2
  /\ resp.site = "list"
  /\ completed = {0}
  /\ current_date = 1
  /\ last_successful_created_date_str = "2008-01-01"

\* C17: every run terminates: the crawl loop ends after at most
\* MAX_REQUESTS outbound calls, and the run reaches the final persistence
\* step before it exits.
C17_ExitsThroughPersistence ==
  /\ issued <= MAX_REQUESTS
  /\ pc = "exit" => (saves # <<>> /\ saves[1].file = PROGRESS_FILE)

\* The checkpoint on disk holds a cursor that is a date.
CursorOnDisk ==
  progressFile.kind = "dict" /\ progressFile.has /\ Parses(progressFile.cursor)

\* C18: a resumed run starts listing at the persisted cursor day itself,
\* not the day after it; so across runs every day before the persisted
\* cursor had its pagination loop run to completion in some run; and a
\* repository of the re-listed cursor day that is already in the in-memory
\* catalog is not enriched again.
C18_ResumeIsInclusive ==
  /\ [][(pc = "parse" /\ pc' = "day") =>
          current_date' = strptime(loaded.cursor)]_vars
  /\ [][(pc = "page" /\ completed = {} /\ resp'.site = "list"
           /\ resp'.outcome # "refused") =>
          strftime(current_date) = loaded.cursor]_vars
  /\ [](CursorOnDisk =>
          \A d \in 0 .. (strptime(progressFile.cursor) - 1) :
             d \in done_before \cup completed)
  /\ [][(CandidateInCatalog /\ Parses(loaded.cursor)
           /\ current_date = strptime(loaded.cursor)) =>
          (UNCHANGED <<issued, request_count, projects>> /\ idx' = idx + 1)]_vars

\* The second run lists again the day of the cursor the first run wrote, a
\* day completed before, and meets a repository that the catalog holds.
C18_Witness ==
  /\ run = 2
  /\ loaded.from = "dict"
  /\ Parses(loaded.cursor)
  /\ current_date = strptime(loaded.cursor)
  /\ current_date \in done_before
  /\ CandidateInCatalog

\* C19: a failed listing request is indistinguishable from exhaustion:
\* list_repositories yields an empty page, pagination for the day stops,
\* the day is recorded as the last successful day and the cursor advances
\* to it; no error is raised and the page is not requested again in the run.
C19_FailedListingEndsTheDay ==
  /\ [][(resp'.site = "list" /\ resp'.outcome = "failed") =>
          /\ pc = "page"
          /\ issued' = issued + 1
          /\ repos' = <<>>
          /\ completed' = completed \cup {current_date}
          /\ last_successful_created_date_str' = strftime(current_date)
          /\ current_date' = current_date + 1
          /\ pc' = "day"
          /\ exc' = "none"
          /\ projects' = projects]_vars
  /\ [][(resp = Resp("list", "failed") /\ run' = run) =>
          /\ current_date' = current_date
          /\ pc' = "page" => page' = 1
          /\ UNCHANGED <<completed, last_successful_created_date_str>>]_vars
  /\ [][(run' = run /\ pc # "parse") => current_date' >= current_date]_vars
  /\ []((pc = "save_projects" /\ ProgressWritten /\ completed # {}) =>
          progressFile.cursor = strftime(MaxOf(completed)))

\* The listing of the first day failed on page 1, and the day stands as the
\* last successful day.
C19_Witness ==
  /\ resp = Resp("list", "failed")
  /\ pc = "day"
  /\ page = 1
  /\ issued = 1
  /\ completed = {0}
  /\ current_date = 1
  /\ last_successful_created_date_str = "2008-01-01"
  /\ exc = "none"

\* C20: the persisted cursor is never ahead of the persisted catalog: after
\* every run, including runs in which a file write fails, when the
\* checkpoint write has taken effect every entry of the in-memory catalog
\* (each was enriched for a day at or before the cursor written, or loaded)
\* is in the catalog file.
C20_CursorNotAheadOfCatalog ==
  (pc = "exit" /\ ProgressWritten /\ Parses(progressFile.cursor)
     /\ output = "projects.json") =>
    \A i \in 1 .. Len(projects) : projects[i].val \in Entries(files[output])

====
